---- MODULE Spec2Model ----
(***************************************************************************)
(* Zoopla agent scraper: tiered extraction, normalisation, deduplication   *)
(* and the pagination / crawl-budget controller of src/src/main.js.        *)
(*                                                                         *)
(* main.js holds two revisions of the actor: v2.1.0 (lines 1-510) and      *)
(* v1.0.0 (lines 512-1210).  The variable ver selects the revision; every  *)
(* operator that differs between the two takes the revision as argument.   *)
(*                                                                         *)
(* Text is a sequence of tokens; "_" is one whitespace character.  Null    *)
(* stands for JavaScript null / undefined, <<>> for the empty string.      *)
(***************************************************************************)
EXTENDS Integers, Sequences, FiniteSets, TLC

VARIABLES ver, input, resultsWanted, maxPages, targets,
          seen, queued, saved, requestQueue, sink,
          addCalls, pushed, pushFailures, handled, last, pc,
          fnIn, fnOut

vars == <<ver, input, resultsWanted, maxPages, targets,
          seen, queued, saved, requestQueue, sink,
          addCalls, pushed, pushFailures, handled, last, pc,
          fnIn, fnOut>>

crawlVars == <<ver, input, resultsWanted, maxPages, targets,
               seen, queued, saved, requestQueue, sink,
               addCalls, pushed, pushFailures, handled, last, pc>>

fnVars == <<fnIn, fnOut>>

(***************************************************************************)
(* Bounds of the model                                                     *)
(***************************************************************************)
MaxWanted == 2
MaxPagesInput == 2
MaxCands == 2
MaxPushFailures == 1
MaxList == 3
MaxNodes == 2
MaxKids == 2
MaxBlocks == 2
MaxPageNo == 3
MaxLdNodes == 3

(***************************************************************************)
(* Program constants                                                       *)
(***************************************************************************)
V1 == 1
V2 == 2
AGENTS_PER_PAGE == 25
AGENTS_PER_PAGE_ESTIMATE == 20
MAX_REQUEST_RETRIES_V2 == 5
MAX_REQUEST_RETRIES_V1 == 3
MAX_WALK_STEPS == 20000

Null == <<"null">>
WS == "_"
BASE_URL == <<"https:", "/", "/", "www.zoopla.co.uk">>

(***************************************************************************)
(* JavaScript truthiness and the || operator on text values                *)
(***************************************************************************)
Truthy(x) == x # Null /\ x # <<>>

Or(a, b) == IF Truthy(a) THEN a ELSE b

Min(a, b) == IF a <= b THEN a ELSE b

Max(a, b) == IF a >= b THEN a ELSE b

\* String(x) inside a template literal: null renders as the text "null"
Str(x) == IF x = Null THEN <<"n", "u", "l", "l">> ELSE x

(***************************************************************************)
(* Text / URL normaliser                                                   *)
(***************************************************************************)
RECURSIVE Collapse(_)
Collapse(t) ==
    IF Len(t) = 0 THEN <<>>
    ELSE IF Len(t) > 1 /\ t[1] = WS /\ t[2] = WS THEN Collapse(Tail(t))
    ELSE <<t[1]>> \o Collapse(Tail(t))

RECURSIVE TrimLeft(_)
TrimLeft(t) ==
    IF Len(t) > 0 /\ t[1] = WS THEN TrimLeft(Tail(t)) ELSE t

RECURSIVE TrimRight(_)
TrimRight(t) ==
    IF Len(t) > 0 /\ t[Len(t)] = WS THEN TrimRight(SubSeq(t, 1, Len(t) - 1)) ELSE t

Trim(t) == TrimRight(TrimLeft(t))

cleanText(text) == IF Truthy(text) THEN Trim(Collapse(text)) ELSE Null

StartsWith(t, p) == Len(t) >= Len(p) /\ SubSeq(t, 1, Len(p)) = p

ensureAbsoluteUrl(value) ==
    IF ~Truthy(value) THEN Null
    ELSE LET trimmed == Trim(value) IN
         IF trimmed = <<>> \/ StartsWith(trimmed, <<"data:">>)
               \/ StartsWith(trimmed, <<"mailto:">>) \/ StartsWith(trimmed, <<"tel:">>)
         THEN Null
         ELSE IF StartsWith(trimmed, <<"/", "/">>) THEN <<"https:">> \o trimmed
         ELSE IF StartsWith(trimmed, <<"https:">>) \/ StartsWith(trimmed, <<"http:">>) THEN trimmed
         ELSE BASE_URL \o (IF StartsWith(trimmed, <<"/">>) THEN <<>> ELSE <<"/">>) \o trimmed

DigitTokens == {"7", "8"}

\* /\/(\d+)\/?$/ : the last path segment is a number (v2 markup tier, v1 second pattern)
NumericTail(url) ==
    LET n == Len(url) IN
    IF n >= 2 /\ url[n] \in DigitTokens /\ url[n - 1] = "/" THEN <<url[n]>>
    ELSE IF n >= 3 /\ url[n] = "/" /\ url[n - 1] \in DigitTokens /\ url[n - 2] = "/" THEN <<url[n - 1]>>
    ELSE Null

\* positions i where url[i..i+2] = "/branch/"
BranchAt(url) == {i \in 1..Len(url) : i + 2 <= Len(url) /\ url[i] = "/" /\ url[i + 1] = "branch" /\ url[i + 2] = "/"}

\* /\/branch\/[^/]*\/(\d+)\b/ : "/branch/<segment or nothing>/<number>"
BranchNumber(url) ==
    LET hits == {i \in BranchAt(url) :
                    \/ (i + 5 <= Len(url) /\ url[i + 3] # "/" /\ url[i + 4] = "/" /\ url[i + 5] \in DigitTokens)
                    \/ (i + 4 <= Len(url) /\ url[i + 3] = "/" /\ url[i + 4] \in DigitTokens)}
    IN IF hits = {} THEN Null
       ELSE LET i == CHOOSE j \in hits : \A k \in hits : j <= k
            IN IF url[i + 3] = "/" THEN <<url[i + 4]>> ELSE <<url[i + 5]>>

\* /\/branch\/([^/]+)\/?/ : the segment after "/branch/"
BranchSlug(url) ==
    LET hits == {i \in BranchAt(url) : i + 3 <= Len(url) /\ url[i + 3] # "/"}
    IN IF hits = {} THEN Null
       ELSE LET i == CHOOSE j \in hits : \A k \in hits : j <= k IN <<url[i + 3]>>

extractAgentIdFromUrl(url) ==
    IF ~Truthy(url) THEN Null
    ELSE IF BranchNumber(url) # Null THEN BranchNumber(url)
    ELSE IF NumericTail(url) # Null THEN NumericTail(url)
    ELSE BranchSlug(url)

(***************************************************************************)
(* Record normaliser.  A raw candidate is a record                         *)
(*   [id, name, branchName, url, address, locality]                        *)
(* of text values; absent properties are Null.                             *)
(***************************************************************************)
MkRecord(agentId, name, branchName, url, address, locality, source) ==
    [agentId |-> agentId, name |-> name, branchName |-> branchName, url |-> url,
     address |-> address, locality |-> locality, source |-> source]

\* the JavaScript value null where a record is expected
NullRecord == MkRecord(Null, Null, Null, Null, Null, Null, "null")

\* v2.1.0: returns null when the cleaned name is falsy
normalizeZooplaAgent(agent, source) ==
    LET agentId == agent.id
        name == cleanText(Or(agent.name, agent.branchName))
        displayAddress == cleanText(agent.address)
    IN IF ~Truthy(name) THEN NullRecord
       ELSE MkRecord(IF Truthy(agentId) THEN agentId ELSE Null,
                     name,
                     Or(cleanText(agent.branchName), name),
                     ensureAbsoluteUrl(agent.url),
                     displayAddress,
                     cleanText(agent.locality),
                     source)

\* v1.0.0: no name check, always returns a record for an object
normalizeAgentRecord(record, source) ==
    LET address == cleanText(record.address)
        locality == cleanText(record.locality)
        url == ensureAbsoluteUrl(record.url)
        name == cleanText(Or(record.name, record.branchName))
        branchName == cleanText(record.branchName)
        agentId == Or(record.id, extractAgentIdFromUrl(url))
    IN MkRecord(IF Truthy(agentId) THEN agentId ELSE Null,
                name,
                Or(branchName, name),
                url,
                address,
                locality,
                source)

looksLikeAgentRecord(record) ==
    LET name == Or(record.name, record.branchName)
    IN Truthy(name) /\ (Truthy(record.url) \/ Truthy(record.address) \/ Truthy(record.id))

\* agent.agentId || agent.url || `${agent.name}|${agent.address}`
KeyOf(agent) ==
    Or(agent.agentId, Or(agent.url, Str(agent.name) \o <<"|">> \o Str(agent.address)))

(***************************************************************************)
(* Extraction tiers.  The content of a page is the list of raw objects     *)
(* each traversal meets, in traversal order:                               *)
(*   nd    the __NEXT_DATA__ script: present, fast (the shape              *)
(*         props.pageProps.data.agents.results exists), buildId, objs      *)
(*   api   the /_next/data/<buildId> response (v1.0.0 only): ok, objs      *)
(*   ld    the typed nodes of the ld+json blocks                           *)
(*   cards the cards / branch links of the markup                          *)
(***************************************************************************)
RECURSIVE NextDataResults(_)
NextDataResults(objs) ==
    IF objs = <<>> THEN <<>>
    ELSE LET n == normalizeZooplaAgent(Head(objs), "api")
         IN (IF n = NullRecord THEN <<>> ELSE <<n>>) \o NextDataResults(Tail(objs))

extractAgentsFromNextData(nd) ==
    IF ~nd.fast THEN <<>> ELSE NextDataResults(nd.objs)

RECURSIVE extractAgentsFromApiPayload(_, _)
extractAgentsFromApiPayload(objs, source) ==
    IF objs = <<>> THEN <<>>
    ELSE (IF looksLikeAgentRecord(Head(objs))
          THEN <<normalizeAgentRecord(Head(objs), source)>> ELSE <<>>)
         \o extractAgentsFromApiPayload(Tail(objs), source)

RECURSIVE extractAgentsFromJsonLd(_, _)
extractAgentsFromJsonLd(v, nodes) ==
    IF nodes = <<>> THEN <<>>
    ELSE LET n == IF v = V2 THEN normalizeZooplaAgent(Head(nodes), "json-ld")
                  ELSE normalizeAgentRecord(Head(nodes), "json-ld")
             keep == IF v = V2 THEN n # NullRecord /\ Truthy(n.name) ELSE n # NullRecord
         IN (IF keep THEN <<n>> ELSE <<>>) \o extractAgentsFromJsonLd(v, Tail(nodes))

\* v2.1.0: one record per distinct link url, kept when the name is truthy
RECURSIVE HtmlLinks(_, _)
HtmlLinks(cards, seenUrls) ==
    IF cards = <<>> THEN <<>>
    ELSE LET c == Head(cards)
             url == ensureAbsoluteUrl(c.url)
             name == cleanText(c.name)
             address == cleanText(c.address)
         IN IF ~Truthy(url) \/ url \in seenUrls THEN HtmlLinks(Tail(cards), seenUrls)
            ELSE (IF Truthy(name)
                  THEN <<MkRecord(NumericTail(c.url), name, name, url, address, Null, "html")>>
                  ELSE <<>>) \o HtmlLinks(Tail(cards), seenUrls \cup {url})

\* v1.0.0: one record per distinct identity key
RECURSIVE HtmlCards(_, _)
HtmlCards(cards, seenKeys) ==
    IF cards = <<>> THEN <<>>
    ELSE LET c == Head(cards)
             url == ensureAbsoluteUrl(c.url)
             name == cleanText(c.name)
             address == cleanText(c.address)
             agentId == extractAgentIdFromUrl(url)
             normalized == MkRecord(IF Truthy(agentId) THEN agentId ELSE Null,
                                    name, name, url, address, Null, "html")
             key == KeyOf(normalized)
         IN IF ~Truthy(key) \/ key \in seenKeys THEN HtmlCards(Tail(cards), seenKeys)
            ELSE <<normalized>> \o HtmlCards(Tail(cards), seenKeys \cup {key})

extractAgentsFromHtml(v, cards) ==
    IF v = V2 THEN HtmlLinks(cards, {}) ELSE HtmlCards(cards, {})

(***************************************************************************)
(* Deduplication                                                           *)
(***************************************************************************)
\* variant: the key of a kept agent is not remembered
RECURSIVE DedupeFromForgets(_, _)
DedupeFromForgets(agents, seenKeys) ==
    IF agents = <<>> THEN <<>>
    ELSE LET key == KeyOf(Head(agents))
         IN IF ~Truthy(key) \/ key \in seenKeys THEN DedupeFromForgets(Tail(agents), seenKeys)
            ELSE <<Head(agents)>> \o DedupeFromForgets(Tail(agents), seenKeys)

RECURSIVE DedupeFrom(_, _)
DedupeFrom(agents, seenKeys) ==
    IF agents = <<>> THEN <<>>
    ELSE LET key == KeyOf(Head(agents))
         IN IF ~Truthy(key) \/ key \in seenKeys THEN DedupeFrom(Tail(agents), seenKeys)
            ELSE <<Head(agents)>> \o DedupeFrom(Tail(agents), seenKeys \cup {key})

dedupeAgents(agents) == DedupeFrom(agents, {})

(***************************************************************************)
(* Page URLs: a path and the two pagination parameters, 0 = not present    *)
(***************************************************************************)
Url(path, pn, page) == [path |-> path, pn |-> pn, page |-> page]

NoUrl == Url("", 0, 0)

DEFAULT_START_URL == Url("london", 0, 0)

getPageParamName(url) ==
    IF url.pn # 0 THEN "pn" ELSE IF url.page # 0 THEN "page" ELSE "pn"

buildSearchUrlForPage(v, startUrl, page) ==
    IF v = V2
    THEN Url(startUrl.path, IF page > 1 THEN page ELSE 0, 0)
    ELSE IF getPageParamName(startUrl) = "pn"
         THEN [startUrl EXCEPT !.pn = IF page > 1 THEN page ELSE 0]
         ELSE [startUrl EXCEPT !.page = IF page > 1 THEN page ELSE 0]

\* a next link of the page: kind "none" (no link), "bad" (a link whose href
\* does not resolve) or "url"
Link(kind, url) == [kind |-> kind, url |-> url]

NoLink == Link("none", NoUrl)

findNextPageUrl(link, currentUrl) ==
    IF link.kind = "url" THEN link.url
    ELSE IF link.kind = "bad" THEN NoUrl
    ELSE LET param == getPageParamName(currentUrl)
             value == IF param = "pn" THEN currentUrl.pn ELSE currentUrl.page
             currentPage == IF value # 0 THEN value ELSE 1
         IN buildSearchUrlForPage(V1, currentUrl, currentPage + 1)

(***************************************************************************)
(* Inputs of the model                                                     *)
(***************************************************************************)
NoNumber == -1

Raw(id, name, branchName, url, address, locality) ==
    [id |-> id, name |-> name, branchName |-> branchName, url |-> url,
     address |-> address, locality |-> locality]

CrawlRaws ==
    { Raw(<<"7">>, <<"a">>, Null, Null, Null, <<"x">>),
      Raw(<<"7">>, <<"a", "_">>, Null, Null, Null, Null),
      Raw(Null, <<"c">>, Null, <<"/", "branch", "/", "x", "/", "8">>, Null, Null),
      Raw(Null, Null, Null, Null, Null, Null) }

SeqsOf(n) == [1..n -> CrawlRaws]

NextData(present, fast, buildId, objs) ==
    [present |-> present, fast |-> fast, buildId |-> buildId, objs |-> objs]

ApiResponse(ok, objs) == [ok |-> ok, objs |-> objs]

Page(challenge, nd, api, ld, cards) ==
    [challenge |-> challenge, nd |-> nd, api |-> api, ld |-> ld, cards |-> cards]

NoNextData == NextData(FALSE, FALSE, FALSE, <<>>)

NoApi == ApiResponse(FALSE, <<>>)

Splits(k) == [1..k -> 0..MaxCands]

Total3(s) == s[1] + s[2] + s[3]

Total4(s) == s[1] + s[2] + s[3] + s[4]

\* A page showing the anti-bot challenge carries no listing data.
\* v2.1.0 reads the fast-path shape of __NEXT_DATA__, the ld+json nodes and the links
PagesV2 ==
    {Page(TRUE, NoNextData, NoApi, <<>>, <<>>)}
    \cup UNION { { Page(FALSE, nd, NoApi, l, c) :
                     nd \in {NextData(TRUE, f, FALSE, n) : f \in BOOLEAN, n \in SeqsOf(s[1])}
                            \cup (IF s[1] = 0 THEN {NoNextData} ELSE {}),
                     l \in SeqsOf(s[2]), c \in SeqsOf(s[3]) } :
                 s \in {t \in Splits(3) : Total3(t) <= MaxCands} }

\* v1.0.0 reads the data endpoint, all of __NEXT_DATA__, the ld+json nodes and the cards
PagesV1 ==
    {Page(TRUE, NoNextData, NoApi, <<>>, <<>>)}
    \cup UNION { { Page(FALSE, nd, api, l, c) :
                nd \in {NextData(TRUE, FALSE, b, n) :
                          b \in (IF s[1] > 0 THEN {TRUE} ELSE BOOLEAN), n \in SeqsOf(s[2])}
                       \cup (IF s[1] = 0 /\ s[2] = 0 THEN {NoNextData} ELSE {}),
                api \in (IF s[1] > 0 THEN {ApiResponse(TRUE, a) : a \in SeqsOf(s[1])} ELSE {NoApi}),
                l \in SeqsOf(s[3]), c \in SeqsOf(s[4]) } :
            s \in {t \in Splits(4) : Total4(t) <= MaxCands} }

Pages(v) == IF v = V2 THEN PagesV2 ELSE PagesV1

\* what each extractor returns on a page
View(v, page) ==
    [challenge |-> page.challenge,
     hasNextData |-> page.nd.present,
     hasApi |-> page.nd.present /\ page.nd.buildId /\ page.api.ok,
     fromApi |-> IF v = V1 THEN extractAgentsFromApiPayload(page.api.objs, "api") ELSE <<>>,
     fromNextData |-> IF v = V2 THEN extractAgentsFromNextData(page.nd)
                      ELSE extractAgentsFromApiPayload(page.nd.objs, "api"),
     fromJsonLd |-> extractAgentsFromJsonLd(v, page.ld),
     fromHtml |-> extractAgentsFromHtml(v, page.cards)]

\* a tier that was run: its source tag, the extractor called, whether it returned records
Ran(tier, fn, agents) == [tier |-> tier, fn |-> fn, hit |-> agents # <<>>]

\* variant: the linked-data tier runs unguarded and its records are added
TiersMerged(v, page) ==
    LET t1 == IF page.hasNextData THEN page.fromNextData ELSE <<>>
        r1 == IF page.hasNextData THEN <<Ran("api", "extractAgentsFromNextData", t1)>> ELSE <<>>
        t2 == t1 \o page.fromJsonLd
        r2 == Append(r1, Ran("json-ld", "extractAgentsFromJsonLd", page.fromJsonLd))
        t3 == IF t2 = <<>> THEN page.fromHtml ELSE t2
        r3 == IF t2 = <<>> THEN Append(r2, Ran("html", "extractAgentsFromHtml", t3)) ELSE r2
    IN [agents |-> t3, ran |-> r3]

\* the fallback chain of requestHandler: the agents found and the tiers run
Tiers(v, page) ==
    IF v = V2
    THEN LET t1 == IF page.hasNextData THEN page.fromNextData ELSE <<>>
             r1 == IF page.hasNextData THEN <<Ran("api", "extractAgentsFromNextData", t1)>> ELSE <<>>
             t2 == IF t1 = <<>> THEN page.fromJsonLd ELSE t1
             r2 == IF t1 = <<>> THEN Append(r1, Ran("json-ld", "extractAgentsFromJsonLd", t2)) ELSE r1
             t3 == IF t2 = <<>> THEN page.fromHtml ELSE t2
             r3 == IF t2 = <<>> THEN Append(r2, Ran("html", "extractAgentsFromHtml", t3)) ELSE r2
         IN [agents |-> t3, ran |-> r3]
    ELSE LET t0 == IF page.hasApi THEN page.fromApi ELSE <<>>
             r0 == IF page.hasApi THEN <<Ran("api", "extractAgentsFromApiPayload", t0)>> ELSE <<>>
             walkNd == t0 = <<>> /\ page.hasNextData
             t1 == IF walkNd THEN page.fromNextData ELSE t0
             r1 == IF walkNd THEN Append(r0, Ran("api", "extractAgentsFromApiPayload", t1)) ELSE r0
             t2 == IF t1 = <<>> THEN page.fromJsonLd ELSE t1
             r2 == IF t1 = <<>> THEN Append(r1, Ran("json-ld", "extractAgentsFromJsonLd", t2)) ELSE r1
             t3 == IF t2 = <<>> THEN page.fromHtml ELSE t2
             r3 == IF t2 = <<>> THEN Append(r2, Ran("html", "extractAgentsFromHtml", t3)) ELSE r2
         IN [agents |-> t3, ran |-> r3]

\* what requestHandler gets out of a page: the challenge marker it tests, the
\* tiers it runs and the agents they return, deduplicated
Fetched(v, page) ==
    LET ext == Tiers(v, View(v, page))
    IN [challenge |-> page.challenge, ran |-> ext.ran, agents |-> dedupeAgents(ext.agents)]

FetchedV2 == {Fetched(V2, p) : p \in PagesV2}

FetchedV1 == {Fetched(V1, p) : p \in PagesV1}

FetchedPages(v) == IF v = V2 THEN FetchedV2 ELSE FetchedV1

StartUrlInputs == {NoUrl, Url("a", 2, 0)}

\* the second list names one search twice, once with a page parameter
StartUrlsInputs ==
    {<<>>, <<Url("a", 0, 0), Url("b", 0, 3)>>, <<Url("a", 0, 0), Url("a", 0, 3)>>}

NextLinks == {NoLink, Link("bad", NoUrl), Link("url", Url("a", 0, 0)), Link("url", Url("c", 0, 0))}

(***************************************************************************)
(* Controller                                                              *)
(***************************************************************************)
maxRequestRetries(v) == IF v = V2 THEN MAX_REQUEST_RETRIES_V2 ELSE MAX_REQUEST_RETRIES_V1

CeilDiv(a, b) == (a + b - 1) \div b

\* blocked counts the retries of the request caused by the challenge check
Request(url, page, rootUrl, retryCount) ==
    [url |-> url, page |-> page, rootUrl |-> rootUrl, retryCount |-> retryCount, blocked |-> 0]

Outcome(req, outcome, challenge, ran, agents, batch, next) ==
    [url |-> req.url, page |-> req.page, rootUrl |-> req.rootUrl, outcome |-> outcome,
     challenge |-> challenge, ran |-> ran, agents |-> agents,
     batch |-> batch, next |-> next, failed |-> FALSE]

NoRequest == Request(NoUrl, 0, NoUrl, 0)

NoOutcome == Outcome(NoRequest, "none", FALSE, <<>>, <<>>, <<>>, NoUrl)

\* requestQueue.addRequest: the queue keeps one request per url (its unique key)
AddRequest(queue, calls, req) ==
    IF \E i \in 1..Len(calls) : calls[i].url = req.url THEN queue ELSE Append(queue, req)

RECURSIVE SeedLoop(_, _, _)
SeedLoop(v, ts, st) ==
    IF ts = <<>> THEN st
    ELSE LET url == buildSearchUrlForPage(v, Head(ts), 1)
             req == Request(url, 1, Head(ts), 0)
         IN SeedLoop(v, Tail(ts),
                     [queued |-> st.queued \cup {url},
                      queue |-> AddRequest(st.queue, st.calls, req),
                      calls |-> Append(st.calls, req)])

\* variant: the loop never breaks on the budget
RECURSIVE SaveLoopNoBreak(_, _)
SaveLoopNoBreak(agents, st) ==
    IF agents = <<>> THEN st
    ELSE LET key == KeyOf(Head(agents))
         IN IF ~Truthy(key) \/ key \in st.seen THEN SaveLoopNoBreak(Tail(agents), st)
            ELSE SaveLoopNoBreak(Tail(agents),
                                 [seen |-> st.seen \cup {key},
                                  saved |-> st.saved + 1,
                                  toSave |-> Append(st.toSave, Head(agents))])

\* variant: the budget is tested after the push, so an agent skipped as seen
\* ends the loop instead of being passed over
RECURSIVE SaveLoopStopsAtSeen(_, _)
SaveLoopStopsAtSeen(agents, st) ==
    IF agents = <<>> \/ st.saved >= resultsWanted THEN st
    ELSE LET key == KeyOf(Head(agents))
         IN IF ~Truthy(key) \/ key \in st.seen THEN st
            ELSE SaveLoopStopsAtSeen(Tail(agents),
                                     [seen |-> st.seen \cup {key},
                                      saved |-> st.saved + 1,
                                      toSave |-> Append(st.toSave, Head(agents))])

\* variant: the seen set is not consulted
RECURSIVE SaveLoopNoSeen(_, _)
SaveLoopNoSeen(agents, st) ==
    IF agents = <<>> \/ st.saved >= resultsWanted THEN st
    ELSE SaveLoopNoSeen(Tail(agents),
                        [seen |-> st.seen \cup {KeyOf(Head(agents))},
                         saved |-> st.saved + 1,
                         toSave |-> Append(st.toSave, Head(agents))])

\* the save loop: for (const agent of agents) { break / continue / push }
RECURSIVE SaveLoop(_, _)
SaveLoop(agents, st) ==
    IF agents = <<>> \/ st.saved >= resultsWanted THEN st
    ELSE LET key == KeyOf(Head(agents))
         IN IF ~Truthy(key) \/ key \in st.seen THEN SaveLoop(Tail(agents), st)
            ELSE SaveLoop(Tail(agents),
                          [seen |-> st.seen \cup {key},
                           saved |-> st.saved + 1,
                           toSave |-> Append(st.toSave, Head(agents))])

\* the start URLs of the actor input; NoUrl and <<>> stand for absent options
Input(startUrl, startUrls) == [startUrl |-> startUrl, startUrls |-> startUrls]

NoInput == Input(NoUrl, <<>>)

NoCall == [raw |-> Raw(Null, Null, Null, Null, Null, Null), source |-> "none"]

NoReturn == [done |-> FALSE, value |-> NullRecord]

Init ==
    /\ ver \in {V1, V2}
    /\ input = NoInput
    /\ resultsWanted = 0
    /\ maxPages = 0
    /\ targets = <<>>
    /\ seen = {}
    /\ queued = {}
    /\ saved = 0
    /\ requestQueue = <<>>
    /\ sink = <<>>
    /\ addCalls = <<>>
    /\ pushed = 0
    /\ pushFailures = 0
    /\ handled = {}
    /\ last = NoOutcome
    /\ pc = "start"
    /\ fnIn = NoCall
    /\ fnOut = NoReturn

\* input parsing and the seed loop
Main ==
    /\ pc = "start"
    /\ \E inStartUrl \in StartUrlInputs, inStartUrls \in StartUrlsInputs,
          inWanted \in 1..MaxWanted, inMaxPages \in {NoNumber} \cup 1..MaxPagesInput :
          LET hasStartUrls == Len(inStartUrls) > 0
              startUrl == IF inStartUrl # NoUrl THEN inStartUrl
                          ELSE IF hasStartUrls THEN NoUrl ELSE DEFAULT_START_URL
              wanted == Max(1, inWanted)
              estimatedPages == CeilDiv(wanted, IF ver = V2 THEN AGENTS_PER_PAGE
                                                ELSE AGENTS_PER_PAGE_ESTIMATE)
              pages == IF inMaxPages # NoNumber THEN Max(1, inMaxPages) ELSE Max(1, estimatedPages)
              ts == IF hasStartUrls THEN inStartUrls ELSE <<startUrl>>
              st == SeedLoop(ver, ts, [queued |-> {}, queue |-> <<>>, calls |-> <<>>])
          IN IF startUrl = NoUrl /\ ~hasStartUrls
             THEN \* Actor.exit({ exitCode: 1 })
                  /\ pc' = "exited"
                  /\ input' = Input(inStartUrl, inStartUrls)
                  /\ UNCHANGED <<resultsWanted, maxPages, targets, queued, requestQueue, addCalls>>
             ELSE /\ pc' = "running"
                  /\ input' = Input(inStartUrl, inStartUrls)
                  /\ resultsWanted' = wanted
                  /\ maxPages' = pages
                  /\ targets' = ts
                  /\ queued' = st.queued
                  /\ requestQueue' = st.queue
                  /\ addCalls' = st.calls
    /\ UNCHANGED <<ver, seen, saved, sink, pushed, pushFailures, handled, last, fnIn, fnOut>>

\* variant: a failed request is put back as it was, with no retry counted
ReclaimUncounted(req) == <<req>> \o Tail(requestQueue)

\* variant: one retry more than maxRequestRetries
ReclaimOnceMore(req) ==
    IF req.retryCount <= maxRequestRetries(ver)
    THEN <<[req EXCEPT !.retryCount = @ + 1]>> \o Tail(requestQueue)
    ELSE Tail(requestQueue)

\* the crawler's error path: retry up to maxRequestRetries, then failedRequestHandler
Reclaim(req) ==
    IF req.retryCount < maxRequestRetries(ver)
    THEN <<[req EXCEPT !.retryCount = @ + 1]>> \o Tail(requestQueue)
    ELSE Tail(requestQueue)

\* failedRequestHandler logs the request once its retries are used up
Errored(req, outcome) ==
    [outcome EXCEPT !.failed = Len(Reclaim(req)) < Len(requestQueue)]

\* the crawler takes the head request (maxConcurrency 1: one request in flight)
FetchNext ==
    /\ pc = "running"
    /\ requestQueue # <<>>
    /\ pc' = "handling"
    /\ last' = NoOutcome
    /\ UNCHANGED <<ver, input, resultsWanted, maxPages, targets, seen, queued, saved, requestQueue,
                   sink, addCalls, pushed, pushFailures, handled, fnIn, fnOut>>

\* navigation of the request in flight fails before requestHandler is called
NavigationFails ==
    /\ pc = "handling"
    /\ pc' = "running"
    /\ requestQueue' = Reclaim(Head(requestQueue))
    /\ last' = Errored(Head(requestQueue),
                       Outcome(Head(requestQueue), "navfail", FALSE, <<>>, <<>>, <<>>, NoUrl))
    /\ UNCHANGED <<ver, input, resultsWanted, maxPages, targets, seen, queued, saved, sink,
                   addCalls, pushed, pushFailures, handled, fnIn, fnOut>>

\* variant: the result budget is not consulted before enqueueing
WantNextIgnoresBudget(pageNum, savedNow) == pageNum < maxPages

\* variant: the page cap is off by one
WantNextOffByOne(pageNum, savedNow) == pageNum <= maxPages /\ savedNow < resultsWanted

\* if (pageNum < maxPages && saved < resultsWanted)
WantNext(pageNum, savedNow) == pageNum < maxPages /\ savedNow < resultsWanted

\* the batch the save loop builds from a page in the current state
BatchOf(page) ==
    SaveLoop(page.agents,
             [seen |-> seen, saved |-> saved, toSave |-> <<>>])

\* Dataset.pushData is called only with a non-empty batch; it resolves or rejects
PushOutcomes(page) ==
    IF (ver = V2 /\ page.challenge) \/ BatchOf(page).toSave = <<>>
          \/ pushFailures >= MaxPushFailures
    THEN {TRUE} ELSE BOOLEAN

\* v1.0.0 looks for a next link only when a successor is wanted
LinkChoices(req, page, pushOk) ==
    IF /\ ver = V1
       /\ pushOk
       /\ page.agents # <<>>
       /\ WantNext(req.page, BatchOf(page).saved)
    THEN NextLinks ELSE {NoLink}

\* the url of the successor page: built from rootUrl (v2.1.0), found by findNextPageUrl (v1.0.0)
NextUrl(v, req, link) ==
    LET pageNum == IF req.page = 0 THEN 1 ELSE req.page
    IN IF v = V2 THEN buildSearchUrlForPage(V2, req.rootUrl, pageNum + 1)
       ELSE findNextPageUrl(link, req.url)

HandlePage(req, page, pushOk, link) ==
    LET pageNum == IF req.page = 0 THEN 1 ELSE req.page
        agents == page.agents
        sv == SaveLoop(agents, [seen |-> seen, saved |-> saved, toSave |-> <<>>])
        wantNext == WantNext(pageNum, sv.saved)
        nextUrl == NextUrl(ver, req, link)
        enqueue == wantNext /\ nextUrl # NoUrl /\ nextUrl \notin queued
        nextReq == Request(nextUrl, pageNum + 1, req.rootUrl, 0)
        here == [rootUrl |-> req.rootUrl, url |-> req.url]
    IN IF ver = V2 /\ page.challenge
       THEN \* throw new Error('Cloudflare challenge not passed')
            /\ requestQueue' = Reclaim([req EXCEPT !.blocked = @ + 1])
            /\ last' = Errored(req, Outcome(req, "challenge", TRUE, <<>>, <<>>, <<>>, NoUrl))
            /\ handled' = handled \cup {here}
            /\ UNCHANGED <<seen, queued, saved, sink, addCalls, pushed, pushFailures>>
       ELSE IF agents = <<>>
       THEN \* no agents on this page: return
            /\ requestQueue' = Tail(requestQueue)
            /\ last' = Outcome(req, "empty", page.challenge, page.ran, <<>>, <<>>, NoUrl)
            /\ handled' = handled \cup {here}
            /\ UNCHANGED <<seen, queued, saved, sink, addCalls, pushed, pushFailures>>
       ELSE IF sv.toSave # <<>> /\ ~pushOk
       THEN \* Dataset.pushData rejects after seen and saved were updated
            /\ seen' = sv.seen
            /\ saved' = sv.saved
            /\ pushed' = pushed + Len(sv.toSave)
            /\ pushFailures' = pushFailures + 1
            /\ requestQueue' = Reclaim(req)
            /\ last' = Errored(req, Outcome(req, "pushfail", page.challenge, page.ran, agents,
                                             sv.toSave, NoUrl))
            /\ handled' = handled \cup {here}
            /\ UNCHANGED <<queued, sink, addCalls>>
       ELSE /\ seen' = sv.seen
            /\ saved' = sv.saved
            /\ pushed' = pushed + Len(sv.toSave)
            /\ sink' = sink \o sv.toSave
            /\ UNCHANGED pushFailures
            /\ queued' = IF enqueue THEN queued \cup {nextUrl} ELSE queued
            /\ requestQueue' = IF enqueue THEN AddRequest(Tail(requestQueue), addCalls, nextReq)
                               ELSE Tail(requestQueue)
            /\ addCalls' = IF enqueue THEN Append(addCalls, nextReq) ELSE addCalls
            /\ last' = Outcome(req, "ok", page.challenge, page.ran, agents,
                               sv.toSave, IF enqueue THEN nextUrl ELSE NoUrl)
            /\ handled' = handled \cup {here}

\* requestHandler on the request in flight
RequestHandler ==
    /\ pc = "handling"
    /\ pc' = "running"
    /\ LET req == Head(requestQueue)
       IN IF saved >= resultsWanted
          THEN /\ requestQueue' = Tail(requestQueue)
               /\ last' = Outcome(req, "skip", FALSE, <<>>, <<>>, <<>>, NoUrl)
               /\ UNCHANGED <<seen, queued, saved, sink, addCalls, pushed, pushFailures, handled>>
          ELSE \E page \in FetchedPages(ver) :
                  \E pushOk \in PushOutcomes(page) :
                     \E link \in LinkChoices(req, page, pushOk) :
                        HandlePage(req, page, pushOk, link)
    /\ UNCHANGED <<ver, input, resultsWanted, maxPages, targets, fnIn, fnOut>>

\* crawler.run() returns when the queue is empty
RunEnds ==
    /\ pc = "running"
    /\ requestQueue = <<>>
    /\ pc' = "done"
    /\ UNCHANGED <<ver, input, resultsWanted, maxPages, targets, seen, queued, saved, requestQueue,
                   sink, addCalls, pushed, pushFailures, handled, last, fnIn, fnOut>>

Next == Main \/ FetchNext \/ NavigationFails \/ RequestHandler \/ RunEnds

Spec == Init /\ [][Next]_vars

\* every navigation returns or fails and every handler call returns or throws
LiveSpec == Init /\ [][Next]_vars /\ WF_vars(Next)

(***************************************************************************)
(* The record normaliser on its own: one call on a raw candidate           *)
(***************************************************************************)
NormIds == {Null, <<"7">>}

NormNames == {Null, <<>>, <<"_">>, <<"_", "_">>, <<"a">>, <<"_", "a", "_", "_", "b">>}

NormBranchNames == {Null, <<"_">>, <<"b">>}

NormUrls == {Null, <<"/", "branch", "/", "x", "/", "8">>}

NormAddresses == {Null, <<"y">>}

NormRaws ==
    {Raw(i, n, b, u, a, Null) :
        i \in NormIds, n \in NormNames, b \in NormBranchNames, u \in NormUrls, a \in NormAddresses}

\* the normaliser of the revision
Normalize(v, raw, source) ==
    IF v = V2 THEN normalizeZooplaAgent(raw, source) ELSE normalizeAgentRecord(raw, source)

NormInit ==
    /\ ver \in {V1, V2}
    /\ input = NoInput
    /\ resultsWanted = 0
    /\ maxPages = 0
    /\ targets = <<>>
    /\ seen = {}
    /\ queued = {}
    /\ saved = 0
    /\ requestQueue = <<>>
    /\ sink = <<>>
    /\ addCalls = <<>>
    /\ pushed = 0
    /\ pushFailures = 0
    /\ handled = {}
    /\ last = NoOutcome
    /\ pc = "normalizer"
    /\ fnIn \in {[raw |-> r, source |-> t] : r \in NormRaws, t \in {"api", "json-ld"}}
    /\ fnOut = NoReturn

NormCall ==
    /\ pc = "normalizer"
    /\ ~fnOut.done
    /\ fnOut' = [done |-> TRUE, value |-> Normalize(ver, fnIn.raw, fnIn.source)]
    /\ UNCHANGED <<crawlVars, fnIn>>

NormNext == NormCall

NormSpec == NormInit /\ [][NormNext]_vars

(***************************************************************************)
(* The pure functions on their own.  The crawl state stays as constructed. *)
(***************************************************************************)
CrawlIdle ==
    /\ input = NoInput
    /\ resultsWanted = 0
    /\ maxPages = 0
    /\ targets = <<>>
    /\ seen = {}
    /\ queued = {}
    /\ saved = 0
    /\ requestQueue = <<>>
    /\ sink = <<>>
    /\ addCalls = <<>>
    /\ pushed = 0
    /\ pushFailures = 0
    /\ handled = {}
    /\ last = NoOutcome

Pending(value) == [done |-> FALSE, value |-> value]

Returned(value) == [done |-> TRUE, value |-> value]

(***************************************************************************)
(* dedupeAgents on a list of records                                       *)
(***************************************************************************)
DedupeRecords ==
    { MkRecord(<<"7">>, <<"a">>, <<"a">>, Null, Null, <<"x">>, "api"),
      MkRecord(<<"7">>, <<"a">>, <<"a">>, Null, Null, <<"y">>, "api"),
      MkRecord(Null, <<"c">>, <<"c">>, BASE_URL \o <<"/", "branch", "/", "x">>, Null, Null, "html"),
      MkRecord(Null, <<"7">>, <<"7">>, Null, Null, Null, "json-ld"),
      MkRecord(Null, Null, Null, Null, Null, Null, "json-ld") }

DedupeLists == UNION {[1..n -> DedupeRecords] : n \in 0..MaxList}

DedupeInit ==
    /\ ver \in {V1, V2}
    /\ CrawlIdle
    /\ pc = "dedupe"
    /\ fnIn \in DedupeLists
    /\ fnOut = Pending(<<>>)

DedupeCall ==
    /\ pc = "dedupe"
    /\ ~fnOut.done
    /\ fnOut' = Returned(dedupeAgents(fnIn))
    /\ UNCHANGED <<crawlVars, fnIn>>

DedupeNext == DedupeCall

DedupeSpec == DedupeInit /\ [][DedupeNext]_vars

(***************************************************************************)
(* Extraction from the text of one page.  A script is absent, malformed    *)
(* or JSON text holding a value; the ld+json scripts are a list of blocks. *)
(***************************************************************************)
Script(kind, value) == [kind |-> kind, value |-> value]

Parsed(threw, isNull, value) == [threw |-> threw, isNull |-> isNull, value |-> value]

\* JSON.parse: throws on malformed text
JSONParse(text) ==
    IF text.kind = "json" THEN Parsed(FALSE, FALSE, text.value) ELSE Parsed(TRUE, TRUE, text.value)

\* variant: no try / catch around JSON.parse
safeJsonParseNoCatch(text) ==
    IF text.kind = "absent" THEN Parsed(FALSE, TRUE, text.value)
    ELSE JSONParse(text)

\* if (!value ...) return null; try { return JSON.parse(value) } catch { return null }
safeJsonParse(text) ==
    IF text.kind = "absent" THEN Parsed(FALSE, TRUE, text.value)
    ELSE IF JSONParse(text).threw THEN Parsed(FALSE, TRUE, text.value)
    ELSE JSONParse(text)

\* no match of the script tag gives null without parsing
extractNextDataFromHtml(html) == safeJsonParse(html.ndScript)

\* scripts.each: parse a block, walk it when the result is not null
RECURSIVE ParseJsonLd(_)
ParseJsonLd(blocks) ==
    IF blocks = <<>> THEN Parsed(FALSE, FALSE, <<>>)
    ELSE LET parsed == safeJsonParse(Head(blocks))
             rest == ParseJsonLd(Tail(blocks))
         IN IF parsed.threw THEN Parsed(TRUE, TRUE, <<>>)
            ELSE Parsed(rest.threw, FALSE,
                        (IF parsed.isNull THEN <<>> ELSE parsed.value) \o rest.value)

Html(ndScript, apiBody, ldScripts, cards) ==
    [ndScript |-> ndScript, apiBody |-> apiBody, ldScripts |-> ldScripts, cards |-> cards]

\* the page as the tiers see it; apiResponse.json().catch(() => null) for the data endpoint
ParseHtml(html) ==
    LET nd == extractNextDataFromHtml(html)
    IN Page(FALSE,
            IF nd.isNull THEN NoNextData ELSE nd.value,
            IF html.apiBody.kind = "json" THEN ApiResponse(TRUE, html.apiBody.value) ELSE NoApi,
            ParseJsonLd(html.ldScripts).value,
            html.cards)

\* the fallback chain on the text of a page; an exception of a parse leaves the handler
Extract(v, html) ==
    LET out == Fetched(v, ParseHtml(html))
        ldRan == \E i \in 1..Len(out.ran) : out.ran[i].tier = "json-ld"
    IN [threw |-> extractNextDataFromHtml(html).threw
                  \/ (ldRan /\ ParseJsonLd(html.ldScripts).threw),
        ran |-> out.ran, agents |-> out.agents]

PageRaws ==
    { Raw(<<"7">>, <<"a">>, Null, Null, Null, Null),
      Raw(Null, Null, Null, Null, Null, Null) }

RawLists(n) == UNION {[1..k -> PageRaws] : k \in 0..n}

NdScripts(v) ==
    {Script("absent", NoNextData), Script("malformed", NoNextData)}
    \cup {Script("json", NextData(TRUE, f, b, objs)) :
             f \in (IF v = V2 THEN BOOLEAN ELSE {FALSE}),
             b \in (IF v = V1 THEN BOOLEAN ELSE {FALSE}),
             objs \in RawLists(MaxCands)}

ApiBodies(v) ==
    IF v = V2 THEN {Script("absent", <<>>)}
    ELSE {Script("absent", <<>>), Script("malformed", <<>>)}
         \cup {Script("json", objs) : objs \in RawLists(1)}

LdBlocks == {Script("malformed", <<>>)} \cup {Script("json", nodes) : nodes \in RawLists(1)}

LdScripts == UNION {[1..k -> LdBlocks] : k \in 0..MaxBlocks}

Htmls(v) ==
    {Html(n, a, l, c) : n \in NdScripts(v), a \in ApiBodies(v), l \in LdScripts, c \in RawLists(1)}

PageInit ==
    /\ ver \in {V1, V2}
    /\ CrawlIdle
    /\ pc = "page"
    /\ fnIn \in Htmls(ver)
    /\ fnOut = Pending([threw |-> FALSE, ran |-> <<>>, agents |-> <<>>])

PageCall ==
    /\ pc = "page"
    /\ ~fnOut.done
    /\ fnOut' = Returned(Extract(ver, fnIn))
    /\ UNCHANGED <<crawlVars, fnIn>>

PageNext == PageCall

PageSpec == PageInit /\ [][PageNext]_vars

(***************************************************************************)
(* The url of the successor page of one request                            *)
(***************************************************************************)
ParamValues == {0} \cup 2..MaxPageNo

SearchUrls == {Url("a", pn, page) : pn \in ParamValues, page \in ParamValues}

\* v2.1.0 requests carry the url built from their rootUrl; v1.0.0 requests
\* also come from next links, so their url is any search url
NextUrlRequests(v) ==
    IF v = V2
    THEN {Request(buildSearchUrlForPage(V2, root, n), n, root, 0) :
             root \in SearchUrls, n \in 1..MaxPageNo}
    ELSE {Request(url, n, url, 0) : url \in SearchUrls, n \in 1..MaxPageNo}

NextUrlInit ==
    /\ ver \in {V1, V2}
    /\ CrawlIdle
    /\ pc = "nexturl"
    /\ fnIn \in {[req |-> r, link |-> l] : r \in NextUrlRequests(ver), l \in NextLinks}
    /\ fnOut = Pending(NoUrl)

NextUrlCall ==
    /\ pc = "nexturl"
    /\ ~fnOut.done
    /\ fnOut' = Returned(NextUrl(ver, fnIn.req, fnIn.link))
    /\ UNCHANGED <<crawlVars, fnIn>>

NextUrlNext == NextUrlCall

NextUrlSpec == NextUrlInit /\ [][NextUrlNext]_vars

(***************************************************************************)
(* extractAgentsFromApiPayload (v1.0.0) on a payload graph, one iteration  *)
(* of its while loop per step.  The objects of the payload are the nodes   *)
(* 1..MaxNodes, node 1 is the payload; a node is an array, an object that  *)
(* passes looksLikeAgentRecord ("agent") or one that does not ("plain").   *)
(* kids lists the values a node holds: node numbers, 0 for a primitive.    *)
(***************************************************************************)
NodeIds == <<"7", "8", "9", "10">>

Node(kind, kids) == [kind |-> kind, kids |-> kids]

RawOfNode(g, n) ==
    IF g[n].kind = "agent" THEN Raw(<<NodeIds[n]>>, <<"a">>, Null, Null, Null, Null)
    ELSE Raw(Null, <<"city">>, Null, Null, Null, Null)

KidLists(values) == UNION {[1..k -> values] : k \in 0..MaxKids}

\* Object.values of an object: only object values are pushed, so primitives are left out
PayloadNodes ==
    {Node("array", k) : k \in KidLists(0..MaxNodes)}
    \cup {Node(kind, k) : kind \in {"agent", "plain"}, k \in KidLists(1..MaxNodes)}

PayloadGraphs == [1..MaxNodes -> PayloadNodes]

Walk(queue, seenNodes, results, normalized, steps, done) ==
    [queue |-> queue, seen |-> seenNodes, value |-> results, normalized |-> normalized,
     steps |-> steps, done |-> done]

\* variant: the WeakSet of visited objects is not consulted
WalkStepFnNoSeen(g, source, w) ==
    LET current == Head(w.queue)
        rest == Tail(w.queue)
    IN IF current = 0
       THEN [w EXCEPT !.queue = rest, !.steps = @ + 1]
       ELSE IF g[current].kind = "array"
       THEN [w EXCEPT !.queue = rest \o g[current].kids, !.steps = @ + 1,
                      !.seen = @ \cup {current}]
       ELSE LET hit == looksLikeAgentRecord(RawOfNode(g, current))
            IN [w EXCEPT !.queue = rest \o g[current].kids, !.steps = @ + 1,
                         !.seen = @ \cup {current},
                         !.value = @ \o extractAgentsFromApiPayload(<<RawOfNode(g, current)>>, source),
                         !.normalized = IF hit THEN Append(@, current) ELSE @]

\* variant: the values of an object that matched are not enqueued
WalkStepFnSkipsMatched(g, source, w) ==
    LET current == Head(w.queue)
        rest == Tail(w.queue)
    IN IF current = 0 \/ current \in w.seen
       THEN [w EXCEPT !.queue = rest, !.steps = @ + 1]
       ELSE IF g[current].kind = "array"
       THEN [w EXCEPT !.queue = rest \o g[current].kids, !.steps = @ + 1,
                      !.seen = @ \cup {current}]
       ELSE LET hit == looksLikeAgentRecord(RawOfNode(g, current))
            IN [w EXCEPT !.queue = IF hit THEN rest ELSE rest \o g[current].kids,
                         !.steps = @ + 1,
                         !.seen = @ \cup {current},
                         !.value = @ \o extractAgentsFromApiPayload(<<RawOfNode(g, current)>>, source),
                         !.normalized = IF hit THEN Append(@, current) ELSE @]

\* one iteration of while (queue.length && steps < 20000)
WalkStepFn(g, source, w) ==
    LET current == Head(w.queue)
        rest == Tail(w.queue)
    IN IF current = 0 \/ current \in w.seen
       THEN [w EXCEPT !.queue = rest, !.steps = @ + 1]
       ELSE IF g[current].kind = "array"
       THEN [w EXCEPT !.queue = rest \o g[current].kids, !.steps = @ + 1,
                      !.seen = @ \cup {current}]
       ELSE LET hit == looksLikeAgentRecord(RawOfNode(g, current))
            IN [w EXCEPT !.queue = rest \o g[current].kids, !.steps = @ + 1,
                         !.seen = @ \cup {current},
                         !.value = @ \o extractAgentsFromApiPayload(<<RawOfNode(g, current)>>, source),
                         !.normalized = IF hit THEN Append(@, current) ELSE @]

WalkInit ==
    /\ ver = V1
    /\ CrawlIdle
    /\ pc = "walk"
    /\ fnIn \in {[graph |-> g, source |-> "api"] : g \in PayloadGraphs}
    /\ fnOut = Walk(<<1>>, {}, <<>>, <<>>, 0, FALSE)

WalkStep ==
    /\ pc = "walk"
    /\ ~fnOut.done
    /\ fnOut.queue # <<>>
    /\ fnOut.steps < MAX_WALK_STEPS
    /\ fnOut' = WalkStepFn(fnIn.graph, fnIn.source, fnOut)
    /\ UNCHANGED <<crawlVars, fnIn>>

\* the loop condition is false: return results
WalkReturn ==
    /\ pc = "walk"
    /\ ~fnOut.done
    /\ ~(fnOut.queue # <<>> /\ fnOut.steps < MAX_WALK_STEPS)
    /\ fnOut' = [fnOut EXCEPT !.done = TRUE]
    /\ UNCHANGED <<crawlVars, fnIn>>

WalkNext == WalkStep \/ WalkReturn

\* the loop body has no suspension point: the walk keeps stepping until it returns
WalkSpec == WalkInit /\ [][WalkNext]_vars /\ WF_vars(WalkNext)

(***************************************************************************)
(* The walk of extractAgentsFromJsonLd over one parsed ld+json block.      *)
(* JSON.parse gives a tree: node 1 is the block, every other node n is     *)
(* held by parent[n] < n, in the order of the node numbers.  A node is an  *)
(* array, an object with an agent @type ("typed") or another object;       *)
(* linked[n] says that its parent holds it under itemListElement, item,    *)
(* mainEntity or about.                                                    *)
(***************************************************************************)
LdTree(kind, parent, linked) == [kind |-> kind, parent |-> parent, linked |-> linked]

LdTrees ==
    {LdTree(k, p, l) :
        k \in [1..MaxLdNodes -> {"array", "typed", "untyped"}],
        p \in {f \in [2..MaxLdNodes -> 1..MaxLdNodes] : \A n \in 2..MaxLdNodes : f[n] < n},
        l \in [2..MaxLdNodes -> BOOLEAN]}

\* the values node n holds, in property order
RECURSIVE LdKidsFrom(_, _, _)
LdKidsFrom(t, n, k) ==
    IF k > MaxLdNodes THEN <<>>
    ELSE (IF t.parent[k] = n THEN <<k>> ELSE <<>>) \o LdKidsFrom(t, n, k + 1)

LdKids(t, n) == LdKidsFrom(t, n, 2)

\* the values walked through node.itemListElement, item, mainEntity, about (v1.0.0)
LdLinkedKids(t, n) == SelectSeq(LdKids(t, n), LAMBDA k : t.linked[k])

\* variant: the WeakSet of visited nodes is not consulted
LdVisitedNever(v, st, n) == FALSE

\* if (visited.has(node)) return; v2.1.0 keeps no visited set
LdVisited(v, st, n) == v = V1 /\ n \in st.visited

RECURSIVE LdWalk(_, _, _, _)
RECURSIVE LdWalkAll(_, _, _, _)
LdWalk(v, t, n, st) ==
    IF LdVisited(v, st, n) THEN st
    ELSE LET st1 == [st EXCEPT !.visited = @ \cup {n}]
         IN IF t.kind[n] = "array" THEN LdWalkAll(v, t, LdKids(t, n), st1)
            ELSE LET st2 == IF t.kind[n] = "typed"
                            THEN [st1 EXCEPT !.order = Append(@, n)] ELSE st1
                     st3 == IF v = V1 THEN LdWalkAll(v, t, LdLinkedKids(t, n), st2) ELSE st2
                 IN LdWalkAll(v, t, LdKids(t, n), st3)

LdWalkAll(v, t, kids, st) ==
    IF kids = <<>> THEN st
    ELSE LdWalkAll(v, t, Tail(kids), LdWalk(v, t, Head(kids), st))

RawOfLdNode(n) == Raw(<<NodeIds[n]>>, <<"a">>, Null, Null, Null, Null)

RECURSIVE RawsOfLdNodes(_)
RawsOfLdNodes(order) ==
    IF order = <<>> THEN <<>> ELSE <<RawOfLdNode(Head(order))>> \o RawsOfLdNodes(Tail(order))

\* the typed nodes in the order they are normalised, and the records returned
LdExtract(v, t) ==
    LET st == LdWalk(v, t, 1, [visited |-> {}, order |-> <<>>])
    IN [order |-> st.order, agents |-> extractAgentsFromJsonLd(v, RawsOfLdNodes(st.order))]

LdInit ==
    /\ ver \in {V1, V2}
    /\ CrawlIdle
    /\ pc = "json-ld"
    /\ fnIn \in LdTrees
    /\ fnOut = Pending([order |-> <<>>, agents |-> <<>>])

LdCall ==
    /\ pc = "json-ld"
    /\ ~fnOut.done
    /\ fnOut' = Returned(LdExtract(ver, fnIn))
    /\ UNCHANGED <<crawlVars, fnIn>>

LdNext == LdCall

LdSpec == LdInit /\ [][LdNext]_vars

(***************************************************************************)
(* Properties                                                              *)
(***************************************************************************)
RECURSIVE FreshOf(_, _)
FreshOf(agents, seenKeys) ==
    IF agents = <<>> THEN <<>>
    ELSE (IF KeyOf(Head(agents)) \in seenKeys THEN <<>> ELSE <<Head(agents)>>)
         \o FreshOf(Tail(agents), seenKeys)

Elems(s) == {s[i] : i \in 1..Len(s)}

TierRank(t) == IF t = "api" THEN 1 ELSE IF t = "json-ld" THEN 2 ELSE 3

\* C1: the saved count, the number of records the sink holds and the number
\* of records passed to pushData never exceed resultsWanted.
C1_BudgetNeverExceeded ==
    /\ saved <= resultsWanted
    /\ Len(sink) <= resultsWanted
    /\ pushed <= resultsWanted

\* the budget cut a batch short: an extracted agent with an unseen key was left out
C1_Witness ==
    /\ last.outcome = "ok"
    /\ saved = resultsWanted
    /\ Len(sink) = resultsWanted
    /\ \E a \in Elems(last.agents) : KeyOf(a) \notin seen

C2_Step ==
    (pc = "handling" /\ last'.outcome \in {"ok", "pushfail"}) =>
        LET r == resultsWanted - saved
            fresh == FreshOf(last'.agents, seen)
            m == Min(Len(fresh), r)
        IN /\ r > 0
           /\ last'.batch = SubSeq(fresh, 1, m)
           /\ saved' = saved + m
           /\ (last'.outcome = "ok" => sink' = sink \o last'.batch)
           /\ (Len(fresh) >= r => last'.next = NoUrl /\ addCalls' = addCalls)

\* C2: a page processed with r = resultsWanted - saved > 0 whose deduplicated
\* extraction has k records with unseen keys saves exactly the first min(k, r)
\* of them, in extraction order; when k >= r (resultsWanted = 1 and several
\* candidates on the page) no successor page is enqueued.
C2_SavesFirstMinKR == [][C2_Step]_vars

\* resultsWanted = 1, two candidates on the page, the first one saved, nothing enqueued
C2_Witness ==
    /\ last.outcome = "ok"
    /\ resultsWanted = 1
    /\ last.page < maxPages
    /\ Len(last.agents) = 2
    /\ last.batch = <<last.agents[1]>>
    /\ sink = last.batch
    /\ last.next = NoUrl

C3_NoDuplicateKeys ==
    \A i, j \in 1..Len(sink) : i # j => KeyOf(sink[i]) # KeyOf(sink[j])

C3_Step ==
    /\ Len(sink') >= Len(sink)
    /\ SubSeq(sink', 1, Len(sink)) = sink
    /\ \A i \in (Len(sink) + 1)..Len(sink') : KeyOf(sink'[i]) \notin seen
    /\ (pc = "handling" =>
           /\ saved' - saved = Len(last'.batch)
           /\ \A a \in Elems(last'.agents) : KeyOf(a) \in seen => a \notin Elems(last'.batch))

\* C3: no two records in the sink have the same identity key; a candidate
\* whose key is in the seen set is skipped, does not count as saved, and the
\* earlier record stays in the sink unchanged (first-seen wins).
C3_FirstSeenWins == []C3_NoDuplicateKeys /\ [][C3_Step]_vars

\* a later candidate with the key of a saved record and another locality was skipped
C3_Witness ==
    /\ last.outcome = "ok"
    /\ \E a \in Elems(last.agents) : \E i \in 1..Len(sink) :
          /\ KeyOf(a) = KeyOf(sink[i])
          /\ a.locality # sink[i].locality
          /\ a \notin Elems(last.batch)

\* C4: the tiers run in the order structured payload, linked data, markup;
\* every tier run before the last one returned no record; the agents of the
\* page and the batch saved from it are those of the one tier that returned
\* records and carry its source tag.
C4_FirstTierWins ==
    LET ran == last.ran
        n == Len(ran)
    IN /\ \A i \in 1..(n - 1) :
             /\ TierRank(ran[i].tier) <= TierRank(ran[i + 1].tier)
             /\ ~ran[i].hit
       /\ last.agents # <<>> =>
             /\ n > 0
             /\ ran[n].hit
             /\ \A a \in Elems(last.agents) : a.source = ran[n].tier
       /\ last.agents = <<>> => \A i \in 1..n : ~ran[i].hit
       /\ Elems(last.batch) \subseteq Elems(last.agents)
       /\ last.outcome = "ok" =>
             SubSeq(sink, Len(sink) - Len(last.batch) + 1, Len(sink)) = last.batch

\* the markup tier produced the batch after both JSON tiers ran and returned nothing
C4_Witness ==
    /\ last.outcome = "ok"
    /\ Len(last.ran) = 3
    /\ last.ran[1].tier = "api"
    /\ last.ran[2].tier = "json-ld"
    /\ last.ran[3].tier = "html"
    /\ last.batch # <<>>
    /\ sink[Len(sink)].source = "html"

C5_Step ==
    pc = "handling" =>
        /\ addCalls' # addCalls =>
              /\ Head(requestQueue).page < maxPages
              /\ saved' < resultsWanted
              /\ last'.agents # <<>>
              /\ last'.outcome = "ok"
        /\ last'.outcome = "empty" =>
              /\ addCalls' = addCalls
              /\ requestQueue' = Tail(requestQueue)
              /\ saved' = saved
              /\ sink' = sink

\* C5: a successor is enqueued only when the page index is below maxPages,
\* the saved count after saving is below resultsWanted and the page yielded a
\* record; a page with no record enqueues nothing and leaves the queue for
\* good (no retry).
C5_SuccessorOnlyWithinBudget == [][C5_Step]_vars

\* a page with no record, with both budgets still open, ended its target's pagination
C5_Witness ==
    /\ last.outcome = "empty"
    /\ last.ran # <<>>
    /\ last.page < maxPages
    /\ saved < resultsWanted
    /\ last.next = NoUrl
    /\ \A i \in 1..Len(requestQueue) : requestQueue[i].url # last.url

\* C6: no request with a page index above maxPages is ever added, and at most
\* maxPages distinct pages of one target are handled.
C6_MaxPagesIsHardCap ==
    /\ \A i \in 1..Len(addCalls) : addCalls[i].page <= maxPages
    /\ \A i \in 1..Len(requestQueue) : requestQueue[i].page <= maxPages
    /\ \A i \in 1..Len(targets) :
          Cardinality({h \in handled : h.rootUrl = targets[i]}) <= maxPages

\* page maxPages of a target yielded records with budget left, and nothing was enqueued
C6_Witness ==
    /\ last.outcome = "ok"
    /\ maxPages > 1
    /\ last.page = maxPages
    /\ last.agents # <<>>
    /\ saved < resultsWanted
    /\ last.next = NoUrl
    /\ Cardinality({h \in handled : h.rootUrl = last.rootUrl}) = maxPages

\* C7: every record in the sink has a non-null name and at least one of
\* agentId, url or the (name, address) pair non-null; the pair counts as
\* non-null as soon as one of its members is.
C7_EmittedRecordsIdentified ==
    \A i \in 1..Len(sink) :
        /\ sink[i].name # Null
        /\ \/ sink[i].agentId # Null
           \/ sink[i].url # Null
           \/ sink[i].name # Null
           \/ sink[i].address # Null

NoUsableName(raw) == ~Truthy(cleanText(raw.name)) /\ ~Truthy(cleanText(raw.branchName))

\* C8: a raw candidate whose name-like fields are all absent or normalise to
\* empty gives null, and no returned record has a null or empty name.
C8_NamelessGivesNull ==
    fnOut.done =>
        /\ NoUsableName(fnIn.raw) => fnOut.value = NullRecord
        /\ fnOut.value # NullRecord => Truthy(fnOut.value.name)

NoIdentity(agent) ==
    agent.agentId = Null /\ agent.url = Null /\ agent.name = Null /\ agent.address = Null

\* C9: a record with no agentId, no url and no name/address pair is dropped
\* by dedupeAgents, never saved, and no key for it enters the seen set.
C9_UnidentifiableDiscarded ==
    /\ \A a \in Elems(last.agents) : ~NoIdentity(a)
    /\ \A i \in 1..Len(sink) : ~NoIdentity(sink[i])
    /\ KeyOf(NullRecord) \notin seen

\* C10: on content with the challenge marker no tier is run, and one request
\* is re-requested because of the challenge at most once.
C10_ChallengeRetriedOnce ==
    /\ last.challenge => last.ran = <<>>
    /\ \A i \in 1..Len(requestQueue) : requestQueue[i].blocked <= 1

C11_Step ==
    (pc = "handling" /\ last'.outcome \in {"navfail", "challenge", "pushfail"}) =>
        LET req == Head(requestQueue)
        IN /\ pc' = "running"
           /\ addCalls' = addCalls
           /\ queued' = queued
           /\ IF req.retryCount < maxRequestRetries(ver)
              THEN /\ ~last'.failed
                   /\ requestQueue' # <<>>
                   /\ Head(requestQueue').url = req.url
                   /\ Head(requestQueue').retryCount = req.retryCount + 1
                   /\ Tail(requestQueue') = Tail(requestQueue)
              ELSE /\ last'.failed
                   /\ requestQueue' = Tail(requestQueue)

C11_RetriesBounded ==
    /\ \A i \in 1..Len(requestQueue) : requestQueue[i].retryCount <= maxRequestRetries(ver)
    /\ last.failed => last.outcome \in {"navfail", "challenge", "pushfail"} /\ last.next = NoUrl
    /\ (pc = "running" /\ requestQueue # <<>>) => ENABLED FetchNext

\* C11: a failing page is retried at most maxRequestRetries times; once the
\* retries are used up the page is reported to failedRequestHandler and leaves
\* the queue, no successor is enqueued for it, the crawler keeps running and
\* the other pending requests stay in the queue to be processed.
C11_FailedPageAbandoned == []C11_RetriesBounded /\ [][C11_Step]_vars

\* a page was given up after its last retry while another target is still pending
C11_Witness ==
    /\ last.failed
    /\ pc = "running"
    /\ requestQueue # <<>>
    /\ \A i \in 1..Len(requestQueue) : requestQueue[i].rootUrl # last.rootUrl

\* C12: a run whose input has neither startUrl nor a non-empty startUrls
\* exits at once with nothing enqueued or fetched, and only such a run exits
\* this way.
C12_NoStartUrlExits ==
    /\ (pc # "start" /\ input = NoInput) =>
           /\ pc = "exited"
           /\ requestQueue = <<>>
           /\ addCalls = <<>>
           /\ handled = {}
    /\ pc = "exited" => input = NoInput

\* the elements of L whose key does not occur earlier in L, in the order of L
RECURSIVE FirstOccurrences(_, _)
FirstOccurrences(L, i) ==
    IF i > Len(L) THEN <<>>
    ELSE (IF \E j \in 1..(i - 1) : KeyOf(L[j]) = KeyOf(L[i]) THEN <<>> ELSE <<L[i]>>)
         \o FirstOccurrences(L, i + 1)

\* C13: dedupeAgents(L) is the subsequence of L holding the first occurrence
\* of every identity key in the order of L, it is no longer than L, and
\* applying dedupeAgents to it again changes nothing.
C13_DedupeIdempotent ==
    (pc = "dedupe" /\ fnOut.done) =>
        /\ fnOut.value = FirstOccurrences(fnIn, 1)
        /\ Len(fnOut.value) <= Len(fnIn)
        /\ dedupeAgents(fnOut.value) = fnOut.value

\* a later record with the key of an earlier one and another locality was
\* dropped, records with other keys were kept
C13_Witness ==
    /\ pc = "dedupe"
    /\ fnOut.done
    /\ Len(fnOut.value) >= 2
    /\ Len(fnOut.value) < Len(fnIn)
    /\ \E i, j \in 1..Len(fnIn) :
          i < j /\ KeyOf(fnIn[i]) = KeyOf(fnIn[j]) /\ fnIn[i] # fnIn[j]
             /\ fnIn[i] \in Elems(fnOut.value) /\ fnIn[j] \notin Elems(fnOut.value)

\* the nodes of g that can be reached from the nodes of set
RECURSIVE Reach(_, _)
Reach(g, set) ==
    LET more == set \cup (UNION {Elems(g[n].kids) : n \in set} \ {0})
    IN IF more = set THEN set ELSE Reach(g, more)

C14_Once ==
    pc = "walk" =>
        /\ fnOut.steps <= MAX_WALK_STEPS
        /\ Cardinality(Elems(fnOut.normalized)) = Len(fnOut.normalized)
        /\ Cardinality(Elems(fnOut.value)) = Len(fnOut.value)
        /\ Len(fnOut.value) = Len(fnOut.normalized)

C14_Returns == pc = "walk" /\ fnOut.done

\* C14: the walk returns on every payload graph, cyclic ones included, after
\* at most 20000 dequeue steps; it normalises an object at most once, so an
\* object reachable along two paths gives one record.
C14_WalkTerminates == []C14_Once /\ <>C14_Returns

\* the walk returned on a payload whose second object refers to itself and
\* is held twice by the first one, with one record for it
C14_Witness ==
    /\ pc = "walk"
    /\ fnOut.done
    /\ fnIn.graph[1].kids = <<2, 2>>
    /\ fnIn.graph[2].kind = "agent"
    /\ 2 \in Elems(fnIn.graph[2].kids)
    /\ Len(SelectSeq(fnOut.normalized, LAMBDA n : n = 2)) = 1

\* C17: a walk that returned with fewer than 20000 steps gives a record for
\* every object reachable from the payload that passes looksLikeAgentRecord,
\* whatever holds it.
C17_WalkComplete ==
    (pc = "walk" /\ fnOut.done /\ fnOut.steps < MAX_WALK_STEPS) =>
        \A n \in Reach(fnIn.graph, {1}) :
            (fnIn.graph[n].kind # "array" /\ looksLikeAgentRecord(RawOfNode(fnIn.graph, n))) =>
                normalizeAgentRecord(RawOfNode(fnIn.graph, n), fnIn.source) \in Elems(fnOut.value)

\* an agent object held by an agent object: both gave a record
C17_Witness ==
    /\ pc = "walk"
    /\ fnOut.done
    /\ fnIn.graph[1].kind = "agent"
    /\ fnIn.graph[2].kind = "agent"
    /\ 2 \in Elems(fnIn.graph[1].kids)
    /\ fnOut.normalized = <<1, 2>>
    /\ Len(fnOut.value) = 2

RECURSIVE WellFormedNodes(_)
WellFormedNodes(blocks) ==
    IF blocks = <<>> THEN <<>>
    ELSE (IF Head(blocks).kind = "json" THEN Head(blocks).value ELSE <<>>)
         \o WellFormedNodes(Tail(blocks))

TierRan(ran, tier) == \E i \in 1..Len(ran) : ran[i].tier = tier

TierHit(ran, tier) == \E i \in 1..Len(ran) : ran[i].tier = tier /\ ran[i].hit

\* C15: a malformed __NEXT_DATA__ script or ld+json block raises nothing out
\* of the extraction and gives no candidate; the linked-data tier returns what
\* the well-formed blocks of the page hold, and the tiers after the failed
\* parse are still run.
C15_ParseFailureScoped ==
    (pc = "page" /\ fnOut.done) =>
        LET out == fnOut.value
            fromWell == extractAgentsFromJsonLd(ver, WellFormedNodes(fnIn.ldScripts))
        IN /\ ~out.threw
           /\ fnIn.ndScript.kind = "malformed" =>
                  ~TierHit(out.ran, "api") /\ TierRan(out.ran, "json-ld")
           /\ TierRan(out.ran, "json-ld") =>
                  /\ TierHit(out.ran, "json-ld") = (fromWell # <<>>)
                  /\ fromWell # <<>> => out.agents = dedupeAgents(fromWell)
                  /\ fromWell = <<>> => TierRan(out.ran, "html")

\* a malformed __NEXT_DATA__ script and a malformed first ld+json block, and
\* the record of the second block was returned
C15_Witness ==
    /\ pc = "page"
    /\ fnOut.done
    /\ fnIn.ndScript.kind = "malformed"
    /\ Len(fnIn.ldScripts) = 2
    /\ fnIn.ldScripts[1].kind = "malformed"
    /\ fnIn.ldScripts[2].kind = "json"
    /\ Len(fnOut.value.agents) = 1
    /\ fnOut.value.agents[1].source = "json-ld"
    /\ fnOut.value.agents[1].name = <<"a">>

\* C18: when the __NEXT_DATA__ payload lacks props.pageProps.data.agents.results
\* the generic walk is run over it before the linked-data tier; the fast
\* path stands alone only on a payload that has the shape.
C18_WalkIsFallback ==
    (pc = "page" /\ fnOut.done /\ fnIn.ndScript.kind = "json") =>
        LET ran == fnOut.value.ran
            walked == \E i \in 1..Len(ran) : ran[i].fn = "extractAgentsFromApiPayload"
        IN /\ (~fnIn.ndScript.value.fast /\ TierRan(ran, "json-ld")) => walked
           /\ ~walked => fnIn.ndScript.value.fast

\* the page numbers "current page" can stand for: the one of the request,
\* the one written on its url
CurrentPages(req) ==
    {req.page} \cup {IF req.url.pn # 0 THEN req.url.pn
                     ELSE IF req.url.page # 0 THEN req.url.page ELSE 1}

\* C16: the next-page url is the explicit next link of the page when there
\* is one; without a link it is the current url with the pagination parameter
\* it already has set to the current page plus one, or with one of the two
\* parameters inserted when it has neither.
C16_NextPageUrl ==
    (pc = "nexturl" /\ fnOut.done) =>
        LET cur == fnIn.req.url
            out == fnOut.value
        IN /\ fnIn.link.kind = "url" => out = fnIn.link.url
           /\ fnIn.link.kind = "none" =>
                  \E n \in CurrentPages(fnIn.req) :
                     IF cur.pn # 0 THEN out = [cur EXCEPT !.pn = n + 1]
                     ELSE IF cur.page # 0 THEN out = [cur EXCEPT !.page = n + 1]
                     ELSE out \in {[cur EXCEPT !.pn = n + 1], [cur EXCEPT !.page = n + 1]}

C20_SavedMatchesSink ==
    /\ saved = Cardinality(seen)
    /\ saved = Len(sink)
    /\ last.outcome = "pushfail" => \A a \in Elems(last.batch) : KeyOf(a) \notin seen

C21_Bounded ==
    /\ \A i \in 1..Len(requestQueue) : requestQueue[i].retryCount <= maxRequestRetries(ver)
    /\ \A i \in 1..Len(targets) :
          Cardinality({j \in 1..Len(addCalls) : addCalls[j].rootUrl = targets[i]}) <= maxPages

\* the attempts a pending request and the successors it can still enqueue may take
AttemptsLeft(req) ==
    (maxRequestRetries(ver) + 1 - req.retryCount)
    + (maxPages - req.page) * (maxRequestRetries(ver) + 1)

RECURSIVE AttemptsLeftIn(_)
AttemptsLeftIn(queue) ==
    IF queue = <<>> THEN 0 ELSE AttemptsLeft(Head(queue)) + AttemptsLeftIn(Tail(queue))

\* the steps the run can still take: two per attempt, one to end
StepsLeft ==
    IF pc \in {"done", "exited"} THEN 0
    ELSE 2 * AttemptsLeftIn(requestQueue) + (IF pc = "handling" THEN 0 ELSE 1)

C21_Progress ==
    /\ StepsLeft >= 0
    /\ pc = "start" => ENABLED Main
    /\ pc = "running" => ENABLED FetchNext \/ ENABLED RunEnds
    /\ pc = "handling" => ENABLED NavigationFails
    /\ (pc \in {"done", "exited"} \/ StepsLeft = 0) => requestQueue = <<>>

C21_Step ==
    /\ pc = "start" => pc' \in {"running", "exited"}
    /\ pc # "start" => StepsLeft' < StepsLeft

\* C21: every run reaches Done, with the queue empty and crawler.run
\* returned, whatever the pages hold and however fetches fail or are blocked:
\* a step can always be taken until then, and every step lowers the number
\* of steps left, which counts maxRequestRetries + 1 attempts for a request
\* and maxPages requests for a target.
C21_RunTerminates == []C21_Bounded /\ []C21_Progress /\ [][C21_Step]_vars

\* the run ended after a request had used up its retries and another target
\* had been paginated to its last page
C21_Witness ==
    /\ pc = "done"
    /\ requestQueue = <<>>
    /\ Len(targets) = 2
    /\ maxPages = 2
    /\ Cardinality({j \in 1..Len(addCalls) : addCalls[j].rootUrl = targets[2]}) = maxPages
    /\ targets[1] \notin {h.rootUrl : h \in handled}

\* C22: no url is passed to requestQueue.addRequest twice, the seed urls of
\* the targets included, and the queued set is the set of the urls passed.
C22_EnqueuedOnce ==
    /\ \A i, j \in 1..Len(addCalls) : i # j => addCalls[i].url # addCalls[j].url
    /\ queued = {addCalls[i].url : i \in 1..Len(addCalls)}

====
